---- MODULE Spec2Model ----
EXTENDS Integers, Sequences, FiniteSets, TLC

F_title ==
    <<"t","i","t","l","e">>
F_cooking_time ==
    <<"c","o","o","k","i","n","g","_","t","i","m","e">>
F_difficulty ==
    <<"d","i","f","f","i","c","u","l","t","y">>
F_ingredients ==
    <<"i","n","g","r","e","d","i","e","n","t","s">>
F_instructions ==
    <<"i","n","s","t","r","u","c","t","i","o","n","s">>
F_nutrition ==
    <<"n","u","t","r","i","t","i","o","n">>
F_flavor_profile ==
    <<"f","l","a","v","o","r","_","p","r","o","f","i","l","e">>
F_garnish_tips ==
    <<"g","a","r","n","i","s","h","_","t","i","p","s">>
F_pairing_suggestions ==
    <<"p","a","i","r","i","n","g","_","s","u","g","g","e","s","t","i","o",
      "n","s">>
N_calories ==
    <<"c","a","l","o","r","i","e","s">>
N_protein ==
    <<"p","r","o","t","e","i","n">>
N_carbs ==
    <<"c","a","r","b","s">>
N_fat ==
    <<"f","a","t">>
L_null ==
    <<"n","u","l","l">>
L_true ==
    <<"t","r","u","e">>
L_false ==
    <<"f","a","l","s","e">>
L_NaN ==
    <<"N","a","N">>
L_Infinity ==
    <<"I","n","f","i","n","i","t","y">>
L_NegInfinity ==
    <<"-","I","n","f","i","n","i","t","y">>
Tmpl0 ==
    <<"Y","o","u"," ","a","r","e"," ","a","n"," ","e","x","p","e","r","t",
      " ","I","n","d","i","a","n"," ","c","h","e","f"," ","a","s","s","i",
      "s","t","a","n","t"," ","h","e","l","p","i","n","g"," ","w","i","t",
      "h"," ","c","o","o","k","i","n","g"," ","q","u","e","r","i","e","s",
      "."," ","\n"," "," "," "," ","Y","o","u"," ","h","a","v","e"," ","a",
      "c","c","e","s","s"," ","t","o"," ","t","h","i","s"," ","r","e","c",
      "i","p","e",":","\n"," "," "," "," ","T","i","t","l","e",":"," ">>
Tmpl1 ==
    <<"\n"," "," "," "," ","I","n","g","r","e","d","i","e","n","t","s",":",
      " ">>
Tmpl2 ==
    <<"\n"," "," "," "," ","C","o","o","k","i","n","g"," ","T","i","m","e",
      ":"," ">>
Tmpl3 ==
    <<" ","m","i","n","u","t","e","s","\n"," "," "," "," ","D","i","f","f",
      "i","c","u","l","t","y",":"," ">>
Tmpl4 ==
    <<"\n"," "," "," "," ","\n"," "," "," "," ","P","r","o","v","i","d","e",
      " ","c","l","e","a","r",","," ","s","p","e","c","i","f","i","c"," ",
      "a","n","s","w","e","r","s"," ","a","b","o","u","t"," ","c","o","o",
      "k","i","n","g"," ","t","e","c","h","n","i","q","u","e","s",","," ",
      "i","n","g","r","e","d","i","e","n","t"," ","s","u","b","s","t","i",
      "t","u","t","i","o","n","s",","," ","\n"," "," "," "," ","t","i","m",
      "i","n","g"," ","a","d","j","u","s","t","m","e","n","t","s",","," ",
      "o","r"," ","a","n","y"," ","o","t","h","e","r"," ","c","o","o","k",
      "i","n","g","-","r","e","l","a","t","e","d"," ","q","u","e","s","t",
      "i","o","n","s"," ","f","o","r"," ","t","h","i","s"," ","r","e","c",
      "i","p","e",".","\n"," "," "," "," ","K","e","e","p"," ","r","e","s",
      "p","o","n","s","e","s"," ","c","o","n","c","i","s","e"," ","a","n",
      "d"," ","p","r","a","c","t","i","c","a","l",".">>
SorryPrefix ==
    <<"S","o","r","r","y",","," ","I"," ","c","o","u","l","d","n","'","t",
      " ","p","r","o","c","e","s","s"," ","y","o","u","r"," ","q","u","e",
      "s","t","i","o","n",":"," ">>
JoinSep ==
    <<","," ">>
D_Beginner ==
    <<"B","e","g","i","n","n","e","r">>
D_Intermediate ==
    <<"I","n","t","e","r","m","e","d","i","a","t","e">>
D_Expert ==
    <<"E","x","p","e","r","t">>
V_Dal ==
    <<"D","a","l">>
V_Tikka ==
    <<"P","a","n","e","e","r"," ","T","i","k","k","a">>
V_30min ==
    <<"3","0"," ","m","i","n","u","t","e","s">>
V_45 ==
    <<"4","5">>
V_Paneer ==
    <<"P","a","n","e","e","r">>
V_Rice ==
    <<"R","i","c","e">>
V_Marinate ==
    <<"M","a","r","i","n","a","t","e">>
V_Grill ==
    <<"G","r","i","l","l">>
V_kcal ==
    <<"2","5","0"," ","k","c","a","l">>
V_12g ==
    <<"1","2","g">>
V_Mild ==
    <<"M","i","l","d">>
V_Brace ==
    <<"{","h","o","t","}">>
V_Mint ==
    <<"M","i","n","t">>
V_Extra ==
    <<"c","h","e","f","_","n","o","t","e","s">>
P_Here ==
    <<"H","e","r","e"," ","y","o","u"," ","g","o",":","\n">>
P_Wrap ==
    <<"{","\"","r","e","c","i","p","e","\"",":"," ">>
S_Enjoy ==
    <<"\n","E","n","j","o","y","!">>
S_Smile ==
    <<" ",":","-","}">>
Q_How ==
    <<"H","o","w"," ","l","o","n","g","?">>
A_Answer ==
    <<" ","T","e","n"," ","m","i","n","u","t","e","s","."," ">>
E_Timeout ==
    <<"t","i","m","e","o","u","t">>
D_True ==
    <<"T","r","u","e">>
D_False ==
    <<"F","a","l","s","e">>
D_None ==
    <<"N","o","n","e">>
DigitChars ==
    <<"0","1","2","3","4","5","6","7","8","9">>
V_Veg ==
    <<"V","e","g","e","t","a","r","i","a","n">>
V_Saag ==
    <<"S","a","a","g">>
V_15 ==
    <<"1","5">>

(***************************************************************************)
(* Python str operations used by the program.  A str is a sequence of      *)
(* one-character strings; indices returned to the program are 0-based as   *)
(* in Python.                                                               *)
(***************************************************************************)
Whitespace == {" ", "\n", "\t", "\r"}

Digits == {"0", "1", "2", "3", "4", "5", "6", "7", "8", "9"}

\* s[i:i+1] at the 1-based position i: the empty str past the end.
At(s, i) == IF i >= 1 /\ i <= Len(s) THEN s[i] ELSE ""

RECURSIVE LStrip(_)
LStrip(s) ==
    IF s # <<>> /\ Head(s) \in Whitespace THEN LStrip(Tail(s)) ELSE s

RECURSIVE RStrip(_)
RStrip(s) ==
    IF s # <<>> /\ s[Len(s)] \in Whitespace
    THEN RStrip(SubSeq(s, 1, Len(s) - 1))
    ELSE s

\* str.strip()
Strip(s) == RStrip(LStrip(s))

\* str.find(c): the lowest 0-based index of c, or -1.
Find(s, c) ==
    IF \E i \in 1..Len(s) : s[i] = c
    THEN (CHOOSE i \in 1..Len(s) :
              s[i] = c /\ \A j \in 1..(i - 1) : s[j] # c) - 1
    ELSE -1

\* Faulty variant of RFind: the first occurrence taken for the last.
RFindFirst(s, c) == Find(s, c)

\* str.rfind(c): the highest 0-based index of c, or -1.
RFind(s, c) ==
    IF \E i \in 1..Len(s) : s[i] = c
    THEN (CHOOSE i \in 1..Len(s) :
              s[i] = c /\ \A j \in (i + 1)..Len(s) : s[j] # c) - 1
    ELSE -1

\* A slice bound as Python clamps it: negative bounds count from the end.
SliceBound(s, i) ==
    IF i < 0
    THEN (IF Len(s) + i < 0 THEN 0 ELSE Len(s) + i)
    ELSE (IF i > Len(s) THEN Len(s) ELSE i)

\* s[a:b]
Slice(s, a, b) == SubSeq(s, SliceBound(s, a) + 1, SliceBound(s, b))

\* sep.join(parts) for a list of str.
RECURSIVE Join(_, _)
Join(sep, parts) ==
    IF parts = <<>> THEN <<>>
    ELSE IF Len(parts) = 1 THEN parts[1]
    ELSE parts[1] \o sep \o Join(sep, Tail(parts))

\* needle in haystack
Contains(haystack, needle) ==
    \E i \in 0..(Len(haystack) - Len(needle)) :
        SubSeq(haystack, i + 1, i + Len(needle)) = needle

\* s.startswith(lit, i - 1) for the 1-based position i.
StartsWithAt(s, i, lit) ==
    /\ i + Len(lit) - 1 <= Len(s)
    /\ SubSeq(s, i, i + Len(lit) - 1) = lit

(***************************************************************************)
(* Python values as json.loads builds them.  A dict keeps its keys in      *)
(* insertion order; a number keeps its literal.                            *)
(***************************************************************************)
PyStr(s) == [t |-> "str", s |-> s]

PyNum(lit) == [t |-> "num", lit |-> lit]

PyBool(b) == [t |-> "bool", b |-> b]

PyNone == [t |-> "None"]

PyList(items) == [t |-> "list", items |-> items]

PyDict(keys, vals) == [t |-> "dict", keys |-> keys, vals |-> vals]

HasKey(d, k) == \E i \in 1..Len(d.keys) : d.keys[i] = k

\* d[k] for a key that is present.
DictGet(d, k) == d.vals[CHOOSE i \in 1..Len(d.keys) : d.keys[i] = k]

\* d[k] = v: a repeated key keeps its place and takes the last value.
DictSet(d, k, v) ==
    IF HasKey(d, k)
    THEN PyDict(d.keys,
                [i \in 1..Len(d.vals) |->
                    IF d.keys[i] = k THEN v ELSE d.vals[i]])
    ELSE PyDict(Append(d.keys, k), Append(d.vals, v))

(***************************************************************************)
(* json.loads on a str without backslash escapes (the replies modelled     *)
(* contain no backslash; one inside a string literal is reported as a      *)
(* decode error here).  Positions are 1-based; a failed decode is          *)
(* JSONDecodeError.                                                         *)
(***************************************************************************)
DecodeError == [ok |-> FALSE]

Decoded(v, next) == [ok |-> TRUE, val |-> v, next |-> next]

RECURSIVE SkipWs(_, _)
SkipWs(s, i) == IF At(s, i) \in Whitespace THEN SkipWs(s, i + 1) ELSE i

RECURSIVE DigitsEnd(_, _)
DigitsEnd(s, i) == IF At(s, i) \in Digits THEN DigitsEnd(s, i + 1) ELSE i

\* The closing quote of the string literal whose content starts at i, or 0.
RECURSIVE StringEnd(_, _)
StringEnd(s, i) ==
    IF i > Len(s) THEN 0
    ELSE IF s[i] = "\"" THEN i
    ELSE IF s[i] \in {"\n", "\t", "\r", "\\"} THEN 0
    ELSE StringEnd(s, i + 1)

\* scanstring: s[i] is the opening quote.
ParseString(s, i) ==
    LET e == StringEnd(s, i + 1)
    IN  IF e = 0 THEN DecodeError
        ELSE Decoded(PyStr(SubSeq(s, i + 1, e - 1)), e + 1)

\* NUMBER_RE: (-?(?:0|[1-9]\d*))(\.\d+)?([eE][-+]?\d+)?
ParseNumber(s, i) ==
    LET j0 == IF At(s, i) = "-" THEN i + 1 ELSE i
        j1 == IF At(s, j0) = "0" THEN j0 + 1 ELSE DigitsEnd(s, j0)
        j2 == IF At(s, j1) = "." /\ At(s, j1 + 1) \in Digits
              THEN DigitsEnd(s, j1 + 1) ELSE j1
        k  == IF At(s, j2 + 1) \in {"+", "-"} THEN j2 + 2 ELSE j2 + 1
        j3 == IF At(s, j2) \in {"e", "E"} /\ At(s, k) \in Digits
              THEN DigitsEnd(s, k) ELSE j2
    IN  IF At(s, j0) \notin Digits THEN DecodeError
        ELSE Decoded(PyNum(SubSeq(s, i, j3 - 1)), j3)

RECURSIVE ParseValue(_, _)
RECURSIVE ParseMembers(_, _, _)
RECURSIVE ParseElements(_, _, _)

\* JSONObject's loop: s[i] is the opening quote of the next key.
ParseMembers(s, i, d) ==
    LET key == ParseString(s, i)
        j1  == SkipWs(s, key.next)
        v   == ParseValue(s, SkipWs(s, j1 + 1))
        j3  == SkipWs(s, v.next)
        j4  == SkipWs(s, j3 + 1)
    IN  IF ~key.ok THEN DecodeError
        ELSE IF At(s, j1) # ":" THEN DecodeError
        ELSE IF ~v.ok THEN DecodeError
        ELSE IF At(s, j3) = "}"
             THEN Decoded(DictSet(d, key.val.s, v.val), j3 + 1)
        ELSE IF At(s, j3) # "," THEN DecodeError
        ELSE IF At(s, j4) # "\"" THEN DecodeError
        ELSE ParseMembers(s, j4, DictSet(d, key.val.s, v.val))

\* JSONArray's loop: i is the position of the next element.
ParseElements(s, i, items) ==
    LET v  == ParseValue(s, i)
        j1 == SkipWs(s, v.next)
    IN  IF ~v.ok THEN DecodeError
        ELSE IF At(s, j1) = "]"
             THEN Decoded(PyList(Append(items, v.val)), j1 + 1)
        ELSE IF At(s, j1) # "," THEN DecodeError
        ELSE ParseElements(s, SkipWs(s, j1 + 1), Append(items, v.val))

\* scan_once
ParseValue(s, i) ==
    LET c == At(s, i)
        j == SkipWs(s, i + 1)
    IN  IF c = "\"" THEN ParseString(s, i)
        ELSE IF c = "{"
             THEN IF At(s, j) = "}" THEN Decoded(PyDict(<<>>, <<>>), j + 1)
                  ELSE IF At(s, j) = "\""
                       THEN ParseMembers(s, j, PyDict(<<>>, <<>>))
                  ELSE DecodeError
        ELSE IF c = "["
             THEN IF At(s, j) = "]" THEN Decoded(PyList(<<>>), j + 1)
                  ELSE ParseElements(s, j, <<>>)
        ELSE IF StartsWithAt(s, i, L_null) THEN Decoded(PyNone, i + 4)
        ELSE IF StartsWithAt(s, i, L_true) THEN Decoded(PyBool(TRUE), i + 4)
        ELSE IF StartsWithAt(s, i, L_false)
             THEN Decoded(PyBool(FALSE), i + 5)
        ELSE IF ParseNumber(s, i).ok THEN ParseNumber(s, i)
        ELSE IF StartsWithAt(s, i, L_NaN) THEN Decoded(PyNum(L_NaN), i + 3)
        ELSE IF StartsWithAt(s, i, L_Infinity)
             THEN Decoded(PyNum(L_Infinity), i + 8)
        ELSE IF StartsWithAt(s, i, L_NegInfinity)
             THEN Decoded(PyNum(L_NegInfinity), i + 9)
        ELSE DecodeError

\* json.loads(s): one value, whitespace around it, nothing else.
Loads(s) ==
    LET r == ParseValue(s, SkipWs(s, 1))
    IN  IF ~r.ok THEN DecodeError
        ELSE IF SkipWs(s, r.next) # Len(s) + 1 THEN DecodeError
        ELSE [ok |-> TRUE, val |-> r.val]

(***************************************************************************)
(* class Recipe: a dataclass of nine fields, none with a default.          *)
(***************************************************************************)
RecipeFields ==
    <<F_title, F_cooking_time, F_difficulty, F_ingredients, F_instructions,
      F_nutrition, F_flavor_profile, F_garnish_tips, F_pairing_suggestions>>

FieldSet == {RecipeFields[i] : i \in 1..Len(RecipeFields)}

Recipe(title, cooking_time, difficulty, ingredients, instructions, nutrition, flavor_profile, garnish_tips, pairing_suggestions) ==
    [t |-> "Recipe",
     title |-> title,
     cooking_time |-> cooking_time,
     difficulty |-> difficulty,
     ingredients |-> ingredients,
     instructions |-> instructions,
     nutrition |-> nutrition,
     flavor_profile |-> flavor_profile,
     garnish_tips |-> garnish_tips,
     pairing_suggestions |-> pairing_suggestions]

\* What a call returns: the Recipe or None, and the exception it caught.
Returned(recipe) == [recipe |-> recipe, error |-> "none"]

\* Faulty variant of Raised: the handler returns a best-effort Recipe.
RaisedWithFallback(error) ==
    [recipe |-> Recipe(PyStr(<<>>), PyStr(<<>>), PyStr(<<>>), PyList(<<>>),
                       PyList(<<>>), PyDict(<<>>, <<>>), PyStr(<<>>),
                       PyStr(<<>>), PyStr(<<>>)),
     error |-> error]

Raised(error) == [recipe |-> PyNone, error |-> error]

\* Faulty variant of RecipeInit: every field has a default, as if the class
\* declared  title: str = ""  and so on.
RecipeInitDefaults(recipe_json) ==
    LET get(f) == IF HasKey(recipe_json, f) THEN DictGet(recipe_json, f)
                  ELSE PyStr(<<>>)
    IN  IF recipe_json.t # "dict" THEN Raised("TypeError")
        ELSE IF \E i \in 1..Len(recipe_json.keys) :
                    recipe_json.keys[i] \notin FieldSet
             THEN Raised("TypeError")
        ELSE Returned(Recipe(get(F_title), get(F_cooking_time),
                             get(F_difficulty), get(F_ingredients),
                             get(F_instructions), get(F_nutrition),
                             get(F_flavor_profile), get(F_garnish_tips),
                             get(F_pairing_suggestions)))

\* Recipe(**recipe_json): the generated __init__ takes exactly the nine
\* keywords; a missing or an unexpected one is a TypeError.  The field
\* annotations are not enforced.
RecipeInit(recipe_json) ==
    IF recipe_json.t # "dict" THEN Raised("TypeError")
    ELSE IF \E f \in FieldSet : ~HasKey(recipe_json, f)
         THEN Raised("TypeError")
    ELSE IF \E i \in 1..Len(recipe_json.keys) :
                recipe_json.keys[i] \notin FieldSet
         THEN Raised("TypeError")
    ELSE Returned(Recipe(DictGet(recipe_json, F_title),
                         DictGet(recipe_json, F_cooking_time),
                         DictGet(recipe_json, F_difficulty),
                         DictGet(recipe_json, F_ingredients),
                         DictGet(recipe_json, F_instructions),
                         DictGet(recipe_json, F_nutrition),
                         DictGet(recipe_json, F_flavor_profile),
                         DictGet(recipe_json, F_garnish_tips),
                         DictGet(recipe_json, F_pairing_suggestions)))

(***************************************************************************)
(* get_recipe_from_ai.  The completion is what                             *)
(* client.chat.completions.create did: it raised, or it returned a reply   *)
(* with the given message content.  The facets only shape the prompt sent. *)
(***************************************************************************)
ApiFailed(message) == [ok |-> FALSE, message |-> message]

ApiReplied(content) == [ok |-> TRUE, content |-> content]

\* The text handed to json.loads.
CandidatePayload(response_text, start_idx, end_idx) ==
    Slice(response_text, start_idx, end_idx)

get_recipe_from_ai(completion) ==
    IF ~completion.ok THEN Raised("APIError")
    ELSE LET response_text == Strip(completion.content)
             start_idx == Find(response_text, "{")
             end_idx == RFind(response_text, "}") + 1
             loaded == Loads(CandidatePayload(response_text,
                                              start_idx, end_idx))
         IN  IF start_idx # -1 /\ end_idx # -1
             THEN IF ~loaded.ok THEN Raised("JSONDecodeError")
                  ELSE RecipeInit(loaded.val)
             ELSE Raised("ValueError")

(***************************************************************************)
(* get_cooking_assistance                                                   *)
(***************************************************************************)
\* str(n) for an int n >= 0.
RECURSIVE IntToStr(_)
IntToStr(n) ==
    IF n < 10 THEN <<DigitChars[n + 1]>>
    ELSE IntToStr(n \div 10) \o <<DigitChars[(n % 10) + 1]>>

\* The literal of an int as json.loads reads it: str() gives it back.
IsIntLiteral(lit) ==
    /\ lit # <<>>
    /\ \A i \in 1..Len(lit) : lit[i] \in Digits
    /\ (Len(lit) > 1 => lit[1] # "0")

\* What an f-string writes for a value: str(v).  Floats, lists and dicts
\* are not among the values formatted here.
Format(v) ==
    CASE v.t = "str" -> v.s
      [] v.t = "num" /\ IsIntLiteral(v.lit) -> v.lit
      [] v.t = "bool" -> IF v.b THEN D_True ELSE D_False
      [] v.t = "None" -> D_None

\* ', '.join(x): the items of the iterable x, each of which must be a
\* str; iterating a str gives its characters, a dict its keys.
JoinIterable(x) ==
    CASE x.t = "list" ->
             IF \A i \in 1..Len(x.items) : x.items[i].t = "str"
             THEN [ok |-> TRUE,
                   text |-> Join(JoinSep,
                                 [i \in 1..Len(x.items) |-> x.items[i].s])]
             ELSE [ok |-> FALSE]
      [] x.t = "str" ->
             [ok |-> TRUE,
              text |-> Join(JoinSep, [i \in 1..Len(x.s) |-> <<x.s[i]>>])]
      [] x.t = "dict" -> [ok |-> TRUE, text |-> Join(JoinSep, x.keys)]
      [] OTHER -> [ok |-> FALSE]

\* Faulty variant of system_content: the recipe's own cooking time and difficulty
\* written in place of the arguments.
system_content_from_recipe(recipe, cooking_time, difficulty) ==
    Tmpl0 \o Format(recipe.title)
        \o Tmpl1 \o JoinIterable(recipe.ingredients).text
        \o Tmpl2 \o Format(recipe.cooking_time)
        \o Tmpl3 \o Format(recipe.difficulty)
        \o Tmpl4

\* The f-string of the system message.
system_content(recipe, cooking_time, difficulty) ==
    Tmpl0 \o Format(recipe.title)
        \o Tmpl1 \o JoinIterable(recipe.ingredients).text
        \o Tmpl2 \o IntToStr(cooking_time)
        \o Tmpl3 \o difficulty
        \o Tmpl4

\* What the call does: the text it returns, or the exception that leaves
\* it (the join is outside the try), the recipe object afterwards, and the
\* messages it sent to the endpoint.
Answered(text, recipe, sent) ==
    [raised |-> "none", text |-> text, recipe |-> recipe, sent |-> sent]

Propagated(error, recipe, sent) ==
    [raised |-> error, text |-> <<>>, recipe |-> recipe, sent |-> sent]

\* Faulty variant of get_cooking_assistance: no try around the remote call.
get_cooking_assistance_unguarded(query, recipe, cuisine_type, cooking_time, difficulty, completion) ==
    LET messages ==
            <<[role |-> "system",
               content |-> system_content(recipe, cooking_time, difficulty)],
              [role |-> "user", content |-> query]>>
    IN  IF ~JoinIterable(recipe.ingredients).ok
        THEN Propagated("TypeError", recipe, <<>>)
        ELSE IF completion.ok
             THEN Answered(Strip(completion.content), recipe, messages)
             ELSE Propagated("APIError", recipe, messages)

\* Faulty variant of get_cooking_assistance: the facet written back into the
\* recipe (recipe.cooking_time = str(cooking_time)).
get_cooking_assistance_syncing(query, recipe, cuisine_type, cooking_time, difficulty, completion) ==
    LET messages ==
            <<[role |-> "system",
               content |-> system_content(recipe, cooking_time, difficulty)],
              [role |-> "user", content |-> query]>>
        synced == [recipe EXCEPT
                       !.cooking_time = PyStr(IntToStr(cooking_time))]
    IN  IF ~JoinIterable(recipe.ingredients).ok
        THEN Propagated("TypeError", recipe, <<>>)
        ELSE IF completion.ok
             THEN Answered(Strip(completion.content), synced, messages)
             ELSE Answered(SorryPrefix \o completion.message, synced,
                           messages)

get_cooking_assistance(query, recipe, cuisine_type, cooking_time, difficulty, completion) ==
    LET messages ==
            <<[role |-> "system",
               content |-> system_content(recipe, cooking_time, difficulty)],
              [role |-> "user", content |-> query]>>
    IN  IF ~JoinIterable(recipe.ingredients).ok
        THEN Propagated("TypeError", recipe, <<>>)
        ELSE IF completion.ok
             THEN Answered(Strip(completion.content), recipe, messages)
             ELSE Answered(SorryPrefix \o completion.message, recipe,
                           messages)

(***************************************************************************)
(* st.session_state: the keys set, and the values of current_recipe and    *)
(* messages (user_input only ever holds the empty str).                    *)
(***************************************************************************)
EmptySession ==
    [keys |-> {}, current_recipe |-> PyNone, messages |-> <<>>]

Turn(role, content) == [role |-> role, content |-> content]

\* for x in v: v must be iterable.
Iterable(v) == v.t \in {"list", "str", "dict"}

\* st.metric takes an int, a float, a str or None as its value.
MetricAccepts(v) == v.t \in {"str", "num", "bool", "None"}

\* The exception that lines 110-142 raise while rendering, or "none".
RenderRaises(recipe) ==
    IF ~Iterable(recipe.ingredients) \/ ~Iterable(recipe.instructions)
    THEN "TypeError"
    ELSE IF recipe.nutrition.t # "dict" THEN "TypeError"
    ELSE IF \E k \in {N_calories, N_protein, N_carbs, N_fat} :
                ~HasKey(recipe.nutrition, k)
         THEN "KeyError"
    ELSE IF \E k \in {N_calories, N_protein, N_carbs, N_fat} :
                ~MetricAccepts(DictGet(recipe.nutrition, k))
         THEN "TypeError"
    ELSE "none"

\* Lines 105-107.
StoreRecipe(ss, recipe) ==
    IF "current_recipe" \notin ss.keys
    THEN [keys |-> ss.keys \cup {"current_recipe", "messages"},
          current_recipe |-> recipe,
          messages |-> <<>>]
    ELSE ss

\* Lines 151-152 and 179-180.
InitChatState(ss) ==
    [keys |-> ss.keys \cup {"messages", "user_input"},
     current_recipe |-> ss.current_recipe,
     messages |-> IF "messages" \in ss.keys THEN ss.messages ELSE <<>>]

\* Lines 209-213.
AppendTurns(ss, user_input, response) ==
    [ss EXCEPT !.messages =
        Append(Append(@, Turn("user", user_input)),
               Turn("assistant", response))]

\* session_state.current_recipe is the object passed in when this call
\* stored it: it then shows whatever the call did to that object.
Aliased(ss, stored_now, recipe) ==
    IF stored_now THEN [ss EXCEPT !.current_recipe = recipe] ELSE ss

\* What one call of display_recipe_and_chat did.
Displayed(ss, raised, rendered, asked, answer) ==
    [session_state |-> ss, raised |-> raised, rendered |-> rendered,
     asked |-> asked, answer |-> answer]

NoAnswer == Propagated("none", PyNone, <<>>)

\* widgets: what st.text_input and the buttons return in this run.
display_recipe_and_chat(ss, recipe, cuisine_type, cooking_time, difficulty, widgets, completion) ==
    LET stored == StoreRecipe(ss, recipe)
        ready == InitChatState(stored)
        user_input == widgets.chat_input
        answer == get_cooking_assistance(user_input, recipe, cuisine_type,
                                         cooking_time, difficulty,
                                         completion)
        asked == Aliased(ready, "current_recipe" \notin ss.keys,
                         answer.recipe)
    IN  IF RenderRaises(recipe) # "none"
        THEN Displayed(stored, RenderRaises(recipe), FALSE, FALSE, NoAnswer)
        ELSE IF widgets.send /\ user_input # <<>>
             THEN IF answer.raised # "none"
                  THEN Displayed(asked, answer.raised, TRUE, TRUE, answer)
                  ELSE Displayed(AppendTurns(asked, user_input, answer.text),
                                 "none", TRUE, TRUE, answer)
        ELSE Displayed(ready, "none", TRUE, FALSE, NoAnswer)

(***************************************************************************)
(* create_recipe_app: one run of the script.                               *)
(***************************************************************************)
\* Lines 295-297.
DeleteRecipeKeys(ss) ==
    [keys |-> ss.keys \ {"current_recipe", "messages"},
     current_recipe |-> PyNone,
     messages |-> <<>>]

\* What one run did: the session state it leaves, what get_recipe_from_ai
\* returned (if called), what display_recipe_and_chat did (if called), and
\* whether the run deleted the recipe keys.
RunResult(ss, called, generated, shown, display, reset) ==
    [session_state |-> ss, called |-> called, generated |-> generated,
     shown |-> shown, display |-> display, reset |-> reset]

NotDisplayed == Displayed(EmptySession, "none", FALSE, FALSE, NoAnswer)

\* The value of an expression, once evaluated.
Only(S) == CHOOSE x \in S : TRUE

\* Lines 284-298: out is what get_recipe_from_ai returned.  The run that
\* experimental_rerun starts has no button set and changes nothing.
ShowGenerated(ss, widgets, facets, out, completion) ==
    LET d == display_recipe_and_chat(ss, out.recipe, facets.cuisine_type,
                                     facets.cooking_time_pref,
                                     facets.difficulty_pref,
                                     widgets, completion)
    IN  IF out.recipe.t = "None"
        THEN RunResult(ss, TRUE, out, FALSE, NotDisplayed, FALSE)
        ELSE IF d.raised # "none"
             THEN RunResult(d.session_state, TRUE, out, TRUE, d, FALSE)
        ELSE IF widgets.new_recipe
             THEN RunResult(DeleteRecipeKeys(d.session_state), TRUE, out,
                            TRUE, d, TRUE)
        ELSE RunResult(d.session_state, TRUE, out, TRUE, d, FALSE)

\* facets: the sidebar's values.
create_recipe_app(ss, widgets, facets, generation, completion) ==
    IF ~widgets.generate
    THEN RunResult(ss, FALSE, Raised("none"), FALSE, NotDisplayed, FALSE)
    ELSE IF facets.available_ingredients = <<>>
         THEN RunResult(ss, FALSE, Raised("none"), FALSE, NotDisplayed,
                        FALSE)
    ELSE Only({ShowGenerated(ss, widgets, facets, out, completion) :
                   out \in {get_recipe_from_ai(generation)}})

(***************************************************************************)
(* The replies the completion endpoint is taken to return: a JSON object   *)
(* written the way json.dumps writes it, between a prefix and a suffix of  *)
(* prose.                                                                   *)
(***************************************************************************)
RECURSIVE Dumps(_)
RECURSIVE DumpItems(_)
RECURSIVE DumpPairs(_, _)

DumpItems(items) ==
    IF items = <<>> THEN <<>>
    ELSE IF Len(items) = 1 THEN Dumps(items[1])
    ELSE Dumps(items[1]) \o JoinSep \o DumpItems(Tail(items))

DumpPairs(keys, vals) ==
    IF keys = <<>> THEN <<>>
    ELSE LET pair == <<"\"">> \o keys[1] \o <<"\"", ":", " ">>
                     \o Dumps(vals[1])
         IN  IF Len(keys) = 1 THEN pair
             ELSE pair \o JoinSep \o DumpPairs(Tail(keys), Tail(vals))

Dumps(v) ==
    CASE v.t = "str" -> <<"\"">> \o v.s \o <<"\"">>
      [] v.t = "num" -> v.lit
      [] v.t = "bool" -> IF v.b THEN L_true ELSE L_false
      [] v.t = "None" -> L_null
      [] v.t = "list" -> <<"[">> \o DumpItems(v.items) \o <<"]">>
      [] v.t = "dict" -> <<"{">> \o DumpPairs(v.keys, v.vals) \o <<"}">>

\* The dict with key k dropped.
Without(d, k) ==
    LET keep == {i \in 1..Len(d.keys) : d.keys[i] # k}
        pos(n) == CHOOSE i \in keep :
                      Cardinality({j \in keep : j < i}) = n - 1
    IN  PyDict([n \in 1..Cardinality(keep) |-> d.keys[pos(n)]],
               [n \in 1..Cardinality(keep) |-> d.vals[pos(n)]])

NutritionDict ==
    PyDict(<<N_calories, N_protein, N_carbs, N_fat>>,
           <<PyStr(V_kcal), PyStr(V_12g), PyStr(V_12g), PyStr(V_12g)>>)

\* Two well-formed nine-field payloads.
PayloadDal ==
    PyDict(RecipeFields,
           <<PyStr(V_Dal), PyStr(V_45), PyStr(D_Expert),
             PyList(<<PyStr(V_Rice)>>), PyList(<<PyStr(V_Grill)>>),
             NutritionDict, PyStr(V_Mild), PyStr(V_Mint), PyStr(V_Rice)>>)

PayloadTikka ==
    PyDict(RecipeFields,
           <<PyStr(V_Tikka), PyStr(V_30min), PyStr(D_Beginner),
             PyList(<<PyStr(V_Paneer), PyStr(V_Rice)>>),
             PyList(<<PyStr(V_Marinate), PyStr(V_Grill)>>),
             NutritionDict, PyStr(V_Brace), PyStr(V_Mint), PyStr(V_Rice)>>)

WellFormedPayloads == {PayloadDal, PayloadTikka}

\* Payloads lacking one or two of the nine fields.
MissingFieldPayloads ==
    {Without(PayloadDal, f) : f \in FieldSet}
        \cup {Without(Without(PayloadTikka, F_title), f) :
                  f \in FieldSet \ {F_title}}

\* Nine fields and one more.
ExtraFieldPayloads == {DictSet(PayloadDal, V_Extra, PyStr(V_Mint))}

\* All nine keys present, one value not of the annotated type.
WronglyTypedPayloads ==
    {DictSet(PayloadDal, F_title, PyNum(V_45)),
     DictSet(PayloadDal, F_cooking_time, PyNum(V_45)),
     DictSet(PayloadDal, F_ingredients, PyStr(V_Rice)),
     DictSet(PayloadDal, F_instructions, PyList(<<PyNum(V_45)>>)),
     DictSet(PayloadDal, F_nutrition, PyStr(V_kcal)),
     DictSet(PayloadDal, F_nutrition, Without(NutritionDict, N_fat)),
     DictSet(PayloadDal, F_garnish_tips, PyNone)}

Payloads ==
    WellFormedPayloads \cup MissingFieldPayloads \cup ExtraFieldPayloads
        \cup WronglyTypedPayloads

\* Prose: every str over ProseChars up to MaxProse characters.
MaxProse == 2

ProseChars == {"a", " ", "{", "}"}

Prose == UNION {[1..n -> ProseChars] : n \in 0..MaxProse}

Prefixes == {<<>>, P_Here, P_Wrap, <<"}", " ">>, <<"{">>}

Suffixes == {<<>>, S_Enjoy, S_Smile, <<"}">>, <<" ", "{">>}

\* A reply P + J + S, kept with its three parts.
Wrapped(pre, payload, post) ==
    [kind |-> "wrapped", pre |-> pre, payload |-> payload, post |-> post,
     content |-> pre \o Dumps(payload) \o post]

\* A reply that is prose only.
Plain(text) == [kind |-> "plain", content |-> text]

Replies ==
    {Wrapped(pre, j, post) :
         pre \in Prose, j \in WellFormedPayloads, post \in Prose}
        \cup {Wrapped(pre, j, post) :
                  pre \in Prefixes, j \in Payloads, post \in Suffixes}
        \cup {Plain(text) : text \in Prose}
        \cup {Plain(P_Here \o S_Enjoy)}

\* The Recipe a well-formed payload decodes to.
RecipeOf(payload) == RecipeInit(payload).recipe

(***************************************************************************)
(* Inputs of the runs of the script.                                       *)
(***************************************************************************)
\* Generation outcomes: the call fails, or replies with a bare payload, a
\* payload in prose, prose only, or a payload whose ingredients are not
\* as annotated.
Generations ==
    {ApiFailed(E_Timeout),
     ApiReplied(Dumps(PayloadDal)),
     ApiReplied(P_Here \o Dumps(PayloadTikka) \o S_Enjoy),
     ApiReplied(P_Here \o S_Enjoy),
     ApiReplied(Dumps(DictSet(PayloadDal, F_ingredients, PyNum(V_45)))),
     ApiReplied(Dumps(DictSet(PayloadDal, F_ingredients,
                              PyList(<<PyNum(V_45)>>))))}

\* Outcomes of the assistant's call.
Completions == {ApiFailed(E_Timeout), ApiReplied(A_Answer)}

Questions == {<<>>, Q_How}

Widgets ==
    [generate : BOOLEAN, send : BOOLEAN, new_recipe : BOOLEAN,
     chat_input : Questions]

Facets ==
    [cuisine_type : {V_Veg},
     available_ingredients : {<<>>, <<V_Paneer>>},
     cooking_time_pref : {45},
     difficulty_pref : {D_Beginner}]

\* The transcript is followed up to MaxTurns questions.
MaxTurns == 2

VARIABLES
    session_state,  \* st.session_state
    last,           \* the last run of the script: its inputs and what it did
    pending,        \* the user's interaction the next run answers, if any
    call,           \* a function under test and its arguments
    ret             \* what that function returned

vars == <<session_state, last, pending, call, ret>>

NoRun ==
    [ran |-> FALSE]

NoEvent == [active |-> FALSE]

NoCall == [fn |-> "none"]

NotReturned == [done |-> FALSE]

\* The record of one run; a completion is recorded when the run used it.
RunOf(widgets, facets, generation, completion, result) ==
    [ran |-> TRUE, widgets |-> widgets, facets |-> facets,
     generation |-> IF result.called THEN generation ELSE ApiFailed(<<>>),
     completion |-> IF result.display.answer.sent # <<>>
                    THEN completion ELSE ApiFailed(<<>>),
     result |-> result]

Init ==
    /\ session_state = EmptySession
    /\ last = NoRun
    /\ pending = NoEvent
    /\ call = NoCall
    /\ ret = NotReturned

\* The inputs of one run.  An input the run does not read is held at one
\* value: the sidebar and the endpoint when Generate Recipe is not
\* clicked, the endpoint when no ingredient is selected, and the
\* assistant's call when no question is sent.
RunInputs ==
    {i \in [widgets : Widgets, facets : Facets, generation : Generations,
            completion : Completions] :
        LET generates == i.widgets.generate
                             /\ i.facets.available_ingredients # <<>>
            asks == generates /\ i.widgets.send
                        /\ i.widgets.chat_input # <<>>
        IN  /\ ~i.widgets.generate
                   => i.facets.available_ingredients = <<V_Paneer>>
            /\ ~generates => i.generation = ApiFailed(E_Timeout)
            /\ ~asks => i.completion = ApiFailed(E_Timeout)}

\* One run of the script, whatever the widgets return.
ScriptRun ==
    \E i \in RunInputs :
        \E result \in {create_recipe_app(session_state, i.widgets,
                                          i.facets, i.generation,
                                          i.completion)} :
            /\ Len(result.session_state.messages) <= 2 * MaxTurns
            /\ session_state' = result.session_state
            /\ last' = RunOf(i.widgets, i.facets, i.generation,
                             i.completion, result)
            /\ UNCHANGED <<pending, call, ret>>

Next == ScriptRun

Spec == Init /\ [][Next]_vars

(***************************************************************************)
(* The script under the framework's rerun model: an interaction of the     *)
(* user with a widget on screen starts a run of the script, in which only  *)
(* the button clicked returns True.                                         *)
(***************************************************************************)
\* The chat input and the Send button are on screen after a run that
\* reached line 192.
ChatOnScreen == last.ran /\ last.result.display.rendered

\* The Generate New Recipe button is on screen after a run that reached
\* line 294.
NewRecipeOnScreen ==
    last.ran /\ last.result.shown /\ last.result.display.raised = "none"

Event(widgets, facets) ==
    [active |-> TRUE, widgets |-> widgets, facets |-> facets]

\* The text in the chat input: empty unless the widget is on screen.
TypedTexts == IF ChatOnScreen THEN Questions ELSE {<<>>}

ClickGenerate ==
    /\ ~pending.active
    /\ \E facets \in Facets, text \in TypedTexts :
           pending' = Event([generate |-> TRUE, send |-> FALSE,
                             new_recipe |-> FALSE, chat_input |-> text],
                            facets)
    /\ UNCHANGED <<session_state, last, call, ret>>

ClickSend ==
    /\ ~pending.active
    /\ ChatOnScreen
    /\ \E facets \in Facets, text \in TypedTexts :
           pending' = Event([generate |-> FALSE, send |-> TRUE,
                             new_recipe |-> FALSE, chat_input |-> text],
                            facets)
    /\ UNCHANGED <<session_state, last, call, ret>>

ClickNewRecipe ==
    /\ ~pending.active
    /\ NewRecipeOnScreen
    /\ \E facets \in Facets, text \in TypedTexts :
           pending' = Event([generate |-> FALSE, send |-> FALSE,
                             new_recipe |-> TRUE, chat_input |-> text],
                            facets)
    /\ UNCHANGED <<session_state, last, call, ret>>

\* The user commits a question in the chat input without clicking.
EnterQuestion ==
    /\ ~pending.active
    /\ ChatOnScreen
    /\ \E facets \in Facets :
           pending' = Event([generate |-> FALSE, send |-> FALSE,
                             new_recipe |-> FALSE, chat_input |-> Q_How],
                            facets)
    /\ UNCHANGED <<session_state, last, call, ret>>

\* The run that answers the interaction.
Rerun ==
    /\ pending.active
    /\ \E i \in RunInputs :
           /\ i.widgets = pending.widgets
           /\ i.facets.available_ingredients
                  = pending.facets.available_ingredients
                \/ ~pending.widgets.generate
           /\ \E result \in {create_recipe_app(session_state, i.widgets,
                                               i.facets, i.generation,
                                               i.completion)} :
                  /\ Len(result.session_state.messages) <= 2 * MaxTurns
                  /\ session_state' = result.session_state
                  /\ last' = RunOf(i.widgets, i.facets, i.generation,
                                   i.completion, result)
    /\ pending' = NoEvent
    /\ UNCHANGED <<call, ret>>

AppNext ==
    \/ ClickGenerate
    \/ ClickSend
    \/ ClickNewRecipe
    \/ EnterQuestion
    \/ Rerun

\* The framework runs the script after every interaction.
AppSpec == Init /\ [][AppNext]_vars /\ WF_vars(Rerun)

(***************************************************************************)
(* get_recipe_from_ai on its own, over the replies.                        *)
(***************************************************************************)
ParseInit ==
    /\ call \in {[fn |-> "get_recipe_from_ai", reply |-> r] : r \in Replies}
    /\ ret = NotReturned
    /\ session_state = EmptySession
    /\ last = NoRun
    /\ pending = NoEvent

ParseReturn ==
    /\ call.fn = "get_recipe_from_ai"
    /\ ~ret.done
    /\ ret' = [done |-> TRUE,
               out |-> get_recipe_from_ai(ApiReplied(call.reply.content))]
    /\ UNCHANGED <<call, session_state, last, pending>>

ParseNext == ParseReturn

ParseSpec == ParseInit /\ [][ParseNext]_vars

(***************************************************************************)
(* get_cooking_assistance on its own, over recipes and facets.             *)
(***************************************************************************)
\* Recipes with zero, one and two ingredients, and one whose ingredients
\* are not as annotated.
HeldRecipes ==
    {RecipeOf(PayloadDal), RecipeOf(PayloadTikka),
     RecipeOf(DictSet(PayloadDal, F_ingredients, PyList(<<>>))),
     RecipeOf(DictSet(PayloadDal, F_ingredients, PyList(<<PyNum(V_45)>>))),
     RecipeOf(DictSet(DictSet(PayloadTikka, F_title, PyStr(V_Saag)),
                      F_cooking_time, PyStr(V_15)))}

\* The slider's range is 15..120.
CookingTimes == {15, 30, 45, 120}

Difficulties == {D_Beginner, D_Intermediate, D_Expert}

AssistInit ==
    /\ call \in [fn : {"get_cooking_assistance"},
                 query : {Q_How},
                 recipe : HeldRecipes,
                 cuisine_type : {V_Veg},
                 cooking_time : CookingTimes,
                 difficulty : Difficulties,
                 completion : Completions]
    /\ ret = NotReturned
    /\ session_state = EmptySession
    /\ last = NoRun
    /\ pending = NoEvent

AssistReturn ==
    /\ call.fn = "get_cooking_assistance"
    /\ ~ret.done
    /\ ret' = [done |-> TRUE,
               out |-> get_cooking_assistance(call.query, call.recipe,
                                              call.cuisine_type,
                                              call.cooking_time,
                                              call.difficulty,
                                              call.completion)]
    /\ UNCHANGED <<call, session_state, last, pending>>

AssistNext == AssistReturn

AssistSpec == AssistInit /\ [][AssistNext]_vars

(***************************************************************************)
(* Properties of get_recipe_from_ai (under ParseSpec).                     *)
(***************************************************************************)
\* The call has returned on a reply P + J + S.
ReturnedOnWrapped == ret.done /\ call.reply.kind = "wrapped"

\* The text the call handed to json.loads for the reply it was given.
Extracted ==
    LET response_text == Strip(call.reply.content)
    IN  CandidatePayload(response_text, Find(response_text, "{"),
                         RFind(response_text, "}") + 1)

\* The nine fields of recipe are the values of the JSON object j.
FieldsEqual(recipe, j) ==
    /\ recipe.t = "Recipe"
    /\ recipe.title = DictGet(j, F_title)
    /\ recipe.cooking_time = DictGet(j, F_cooking_time)
    /\ recipe.difficulty = DictGet(j, F_difficulty)
    /\ recipe.ingredients = DictGet(j, F_ingredients)
    /\ recipe.instructions = DictGet(j, F_instructions)
    /\ recipe.nutrition = DictGet(j, F_nutrition)
    /\ recipe.flavor_profile = DictGet(j, F_flavor_profile)
    /\ recipe.garnish_tips = DictGet(j, F_garnish_tips)
    /\ recipe.pairing_suggestions = DictGet(j, F_pairing_suggestions)

HasChar(s, c) == \E i \in 1..Len(s) : s[i] = c

\* C1 as claimed: for a reply P + J + S with J a well-formed nine-field
\* object and P, S any prose, braces included, the call extracts exactly J
\* and returns the Recipe with J's values.
C1_AnyProse ==
    (ReturnedOnWrapped /\ call.reply.payload \in WellFormedPayloads)
        => /\ Extracted = Dumps(call.reply.payload)
           /\ FieldsEqual(ret.out.recipe, call.reply.payload)

\* C1 as amended: for a reply P + J + S with J a well-formed nine-field
\* object, P without '{' and S without '}', the call extracts exactly J and
\* returns the Recipe with J's values.
C1_ProseWithoutOuterBraces ==
    (/\ ReturnedOnWrapped
     /\ call.reply.payload \in WellFormedPayloads
     /\ ~HasChar(call.reply.pre, "{")
     /\ ~HasChar(call.reply.post, "}"))
        => /\ Extracted = Dumps(call.reply.payload)
           /\ FieldsEqual(ret.out.recipe, call.reply.payload)

\* A two-ingredient payload between "Here you go:" and a smiley that opens
\* no brace has been decoded.
C1_Witness ==
    /\ ReturnedOnWrapped
    /\ call.reply.pre = P_Here
    /\ call.reply.payload = PayloadTikka
    /\ call.reply.post = <<" ", "{">>
    /\ ret.out.recipe.t = "Recipe"

\* C2: a reply that lacks '{' or lacks '}' makes the call fail in the
\* decode (ValueError, of which JSONDecodeError is a kind): it returns None
\* and builds no Recipe.
C2_NoBracePairFails ==
    (/\ ret.done
     /\ \/ ~HasChar(call.reply.content, "{")
        \/ ~HasChar(call.reply.content, "}"))
        => /\ ret.out.recipe = PyNone
           /\ ret.out.error \in {"ValueError", "JSONDecodeError"}

\* A reply with a '{' and no '}' has been refused: the slice is empty.
C2_Witness ==
    /\ ret.done
    /\ HasChar(call.reply.content, "{")
    /\ ~HasChar(call.reply.content, "}")
    /\ Extracted = <<>>
    /\ ret.out.recipe = PyNone

\* The extracted text is a JSON object that lacks one of the nine fields.
ExtractedLacksField ==
    /\ Loads(Extracted).ok
    /\ Loads(Extracted).val.t = "dict"
    /\ \E f \in FieldSet : ~HasKey(Loads(Extracted).val, f)

\* C3: when the extracted JSON object lacks one of the nine fields the call
\* returns None, never a Recipe with the field defaulted.
C3_MissingFieldFails ==
    (ret.done /\ HasChar(call.reply.content, "{") /\ ExtractedLacksField)
        => /\ ret.out.recipe = PyNone
           /\ ret.out.error = "TypeError"

\* A payload without its nutrition field, in prose, has been refused.
C3_Witness ==
    /\ ReturnedOnWrapped
    /\ call.reply.pre = P_Here
    /\ call.reply.payload = Without(PayloadDal, F_nutrition)
    /\ call.reply.post = S_Enjoy
    /\ ExtractedLacksField
    /\ ret.out.recipe = PyNone

IsStr(v) == v.t = "str"

IsListOfStr(v) ==
    v.t = "list" /\ \A i \in 1..Len(v.items) : IsStr(v.items[i])

\* The nine fields have the types the class annotates, and nutrition its
\* four keys.
TypeCorrect(recipe) ==
    /\ IsStr(recipe.title)
    /\ IsStr(recipe.cooking_time)
    /\ IsStr(recipe.difficulty)
    /\ IsListOfStr(recipe.ingredients)
    /\ IsListOfStr(recipe.instructions)
    /\ recipe.nutrition.t = "dict"
    /\ \A k \in {N_calories, N_protein, N_carbs, N_fat} :
           HasKey(recipe.nutrition, k)
    /\ IsStr(recipe.flavor_profile)
    /\ IsStr(recipe.garnish_tips)
    /\ IsStr(recipe.pairing_suggestions)

\* C4: every Recipe the call returns is type-correct in all nine fields; a
\* reply with the nine keys and a wrongly typed value yields no Recipe.
C4_ReturnedRecipeTypeCorrect ==
    (ret.done /\ ret.out.recipe.t = "Recipe") => TypeCorrect(ret.out.recipe)

(***************************************************************************)
(* Properties of the Send handler and of the session state (under Spec and *)
(* AppSpec).                                                                *)
(***************************************************************************)
\* The last run reached the Send handler and called get_cooking_assistance.
Asked == last.ran /\ last.result.display.asked

\* The call reached the endpoint (the system message was built).
RemoteCalled == Asked /\ last.result.display.answer.sent # <<>>

\* The transcript display_recipe_and_chat starts from: lines 105-107 empty
\* it when no recipe is held.
TranscriptAtEntry ==
    IF "current_recipe" \in session_state.keys
    THEN session_state.messages
    ELSE <<>>

\* The two turns the Send handler appends for a question and a response.
TurnsFor(question, response) ==
    <<Turn("user", question), Turn("assistant", response)>>

\* C5: when the remote call of get_cooking_assistance fails, no error
\* leaves the function; it returns the apology text, and the Send handler
\* appends the user turn and an assistant turn holding that text, as it
\* appends the stripped reply when the call succeeds.
C5_FailureBecomesApologyTurn ==
    [][RemoteCalled' =>
          LET answer == last'.result.display.answer
              response == IF last'.completion.ok
                          THEN Strip(last'.completion.content)
                          ELSE SorryPrefix \o last'.completion.message
          IN  /\ answer.raised = "none"
              /\ answer.text = response
              /\ last'.result.display.session_state.messages
                     = TranscriptAtEntry
                           \o TurnsFor(last'.widgets.chat_input, response)]_vars

\* A failed remote call has left the question and the apology as the last
\* two turns of a transcript that already held an answered question.
C5_Witness ==
    /\ RemoteCalled
    /\ ~last.completion.ok
    /\ Len(session_state.messages) = 4
    /\ session_state.messages[2].content = Strip(A_Answer)
    /\ session_state.messages[4].content = SorryPrefix \o E_Timeout

\* The last run called get_recipe_from_ai and got a Recipe.
Generated == last.ran /\ last.result.generated.recipe.t = "Recipe"

C7_HeldRecipeSuperseded ==
    (Generated /\ last.result.shown /\ ~last.result.reset)
        => session_state.current_recipe = last.result.generated.recipe

\* C8: a question, answered or failed, leaves the Recipe as it was: the
\* object passed to get_cooking_assistance is unchanged by the call, and
\* session_state.current_recipe is the recipe held before, or the one this
\* run stored.
C8_QuestionsLeaveRecipeUnchanged ==
    [][Asked' =>
          /\ last'.result.display.answer.recipe
                 = last'.result.generated.recipe
          /\ last'.result.display.session_state.current_recipe
                 = IF "current_recipe" \in session_state.keys
                   THEN session_state.current_recipe
                   ELSE last'.result.generated.recipe]_vars

\* Two questions have been asked against the held two-ingredient recipe,
\* the second in a later run, and one of the calls failed.
C8_Witness ==
    /\ Asked
    /\ Len(session_state.messages) = 4
    /\ session_state.messages[2].content # session_state.messages[4].content
    /\ session_state.current_recipe = RecipeOf(PayloadTikka)
    /\ last.result.generated.recipe = RecipeOf(PayloadTikka)

(***************************************************************************)
(* Properties of the system message (under AssistSpec).                    *)
(***************************************************************************)
\* The content of the system message the call sent.
SentSystemContent == ret.out.sent[1].content

InstructionBuilt == ret.done /\ ret.out.sent # <<>>

\* The parts occur in text one after the other, from position from on.
RECURSIVE ContainsInOrder(_, _, _)
ContainsInOrder(text, parts, from) ==
    IF parts = <<>> THEN TRUE
    ELSE \E i \in from..(Len(text) - Len(parts[1]) + 1) :
             /\ SubSeq(text, i, i + Len(parts[1]) - 1) = parts[1]
             /\ \A j \in from..(i - 1) :
                    SubSeq(text, j, j + Len(parts[1]) - 1) # parts[1]
             /\ ContainsInOrder(text, Tail(parts), i + Len(parts[1]))

\* The entries of a list of str.
Entries(v) == [i \in 1..Len(v.items) |-> v.items[i].s]

\* C9 as claimed: the system instruction contains the recipe's title,
\* every entry of its ingredient list in order, the recipe's cooking time
\* and the recipe's difficulty label.
C9_InstructionHoldsRecipeFields ==
    InstructionBuilt
        => /\ Contains(SentSystemContent, call.recipe.title.s)
           /\ ContainsInOrder(SentSystemContent,
                              Entries(call.recipe.ingredients), 1)
           /\ Contains(SentSystemContent, call.recipe.cooking_time.s)
           /\ Contains(SentSystemContent, call.recipe.difficulty.s)

\* C9 as amended: the system instruction contains the recipe's title,
\* every entry of its ingredient list in order, and the cooking_time and
\* difficulty arguments (the facets), the first in decimal.
C9_InstructionHoldsTitleIngredientsFacets ==
    InstructionBuilt
        => /\ Contains(SentSystemContent, call.recipe.title.s)
           /\ ContainsInOrder(SentSystemContent,
                              Entries(call.recipe.ingredients), 1)
           /\ Contains(SentSystemContent,
                       Tmpl2 \o IntToStr(call.cooking_time) \o Tmpl3
                           \o call.difficulty)

\* The instruction was built for the two-ingredient recipe with facets
\* that differ from the recipe's own cooking time and difficulty.
C9_Witness ==
    /\ InstructionBuilt
    /\ call.recipe = RecipeOf(PayloadTikka)
    /\ call.cooking_time = 120
    /\ call.difficulty = D_Expert

(***************************************************************************)
(* The rerun model (under AppSpec).                                        *)
(***************************************************************************)
\* The user has clicked Send with a question typed, a recipe on screen.
SendClicked ==
    /\ pending.active
    /\ pending.widgets.send
    /\ pending.widgets.chat_input # <<>>
    /\ ChatOnScreen

\* The run answering a Send click called get_cooking_assistance with the
\* question and appended the two turns.
SendAnswered ==
    /\ Asked
    /\ last.widgets.send
    /\ Len(session_state.messages) >= 2
    /\ session_state.messages[Len(session_state.messages) - 1]
           = Turn("user", last.widgets.chat_input)

\* C10 as claimed: whenever the user enters a question and clicks Send
\* while a generated recipe is displayed, get_cooking_assistance is
\* eventually invoked with it and a user turn and an assistant turn are
\* appended to the transcript.
C10_SendLeadsToAnswer == SendClicked ~> SendAnswered
====
